---------------------------- MODULE Spec2Model ----------------------------
(***************************************************************************)
(* MoneyTracker: a React form (App) that posts transactions to an Express  *)
(* API backed by a document collection, and sums the loaded prices into a  *)
(* balance.                                                                *)
(*                                                                         *)
(* Text the user types into the combined name field is a sequence of       *)
(* one-character strings; description and dateTime are opaque strings.     *)
(* A JavaScript value that may be a string or a number is a tagged record  *)
(* (Str, Num), so that "20" and 20 are different values, as they are in    *)
(* the JSON on the wire.                                                   *)
(***************************************************************************)
EXTENDS Integers, Sequences, FiniteSets, TLC

VARIABLES
    name,          \* App state: the combined "price name" input
    description,   \* App state: the description input
    dateTime,      \* App state: the datetime-local input
    transactions,  \* App state: whatever setTransactions was last given
    mounted,       \* the mount effect has run
    net,           \* requests and responses in flight between client and API
    db,            \* the "transactions" collection, in the store's order
    nextId,        \* the store's next identifier
    posted,        \* history: the payload of every POST sent, in order
    submitted,     \* history: the name field as it was at each submit
    created,       \* history: <<rid, id>> for every create that succeeded
    answered       \* history: <<rid, status>> of every POST response handled

vars == << name, description, dateTime, transactions, mounted, net, db,
           nextId, posted, submitted, created, answered >>

----------------------------------------------------------------------------
(* Bounds of the model *)

\* POST requests one page session sends
MaxSubmits == 2

\* length of the name field in the specification of the submit alone
MaxLen == 4

----------------------------------------------------------------------------
(* JavaScript values *)

Str(s) == [t |-> "string", s |-> s, n |-> 0]

Num(n) == [t |-> "number", s |-> <<>>, n |-> n]

Digits == <<"0", "1", "2", "3", "4", "5", "6", "7", "8", "9">>

IsDigit(c) == \E d \in 1..10 : Digits[d] = c

DigitValue(c) == (CHOOSE d \in 1..10 : Digits[d] = c) - 1

RECURSIVE DigitsValue(_)
\* the value of a non-empty run of decimal digits
DigitsValue(s) ==
    IF Len(s) = 0 THEN 0
    ELSE 10 * DigitsValue(SubSeq(s, 1, Len(s) - 1)) + DigitValue(s[Len(s)])

\* the strings that denote an integer: an optional minus sign and digits
IsNumeric(s) ==
    LET body == IF Len(s) > 0 /\ s[1] = "-" THEN Tail(s) ELSE s
    IN  Len(body) > 0 /\ \A i \in 1..Len(body) : IsDigit(body[i])

\* the number a numeric string denotes
ToNumber(s) ==
    IF Len(s) > 0 /\ s[1] = "-" THEN 0 - DigitsValue(Tail(s)) ELSE DigitsValue(s)

RECURSIVE NatToString(_)
NatToString(n) ==
    IF n < 10 THEN << Digits[n + 1] >>
    ELSE NatToString(n \div 10) \o << Digits[(n % 10) + 1] >>

\* String(n) for an integer
NumToString(n) == IF n < 0 THEN <<"-">> \o NatToString(0 - n) ELSE NatToString(n)

ToStringValue(v) == IF v.t = "string" THEN v.s ELSE NumToString(v.n)

\* a + b: numeric addition of two numbers, concatenation when either is a string
JSAdd(a, b) ==
    IF a.t = "number" /\ b.t = "number" THEN Num(a.n + b.n)
    ELSE Str(ToStringValue(a) \o ToStringValue(b))

\* v < k for a number k: a string is converted first, and NaN compares false
JSLess(v, k) ==
    IF v.t = "number" THEN v.n < k
    ELSE IF Len(v.s) = 0 THEN 0 < k
    ELSE IsNumeric(v.s) /\ ToNumber(v.s) < k

----------------------------------------------------------------------------
(* JSON bodies *)

NoDoc == [_id |-> 0, name |-> <<>>, description |-> "", dateTime |-> "",
          price |-> Num(0)]

NoPayload == [price |-> Str(<<>>), name |-> <<>>, description |-> "",
              dateTime |-> ""]

JNone == [kind |-> "none", items |-> <<>>, error |-> "", doc |-> NoDoc]

JArray(items) == [kind |-> "array", items |-> items, error |-> "", doc |-> NoDoc]

JError(msg) == [kind |-> "error", items |-> <<>>, error |-> msg, doc |-> NoDoc]

JDoc(d) == [kind |-> "doc", items |-> <<>>, error |-> "", doc |-> d]

Request(method, rid, payload) ==
    [dir |-> "req", method |-> method, rid |-> rid, status |-> 0,
     payload |-> payload, json |-> JNone, storeOk |-> TRUE]

\* storeOk is history, not on the wire: whether the handler's store call resolved
Response(method, rid, status, json, storeOk) ==
    [dir |-> "res", method |-> method, rid |-> rid, status |-> status,
     payload |-> NoPayload, json |-> json, storeOk |-> storeOk]

----------------------------------------------------------------------------
(* Client: pure parts of App *)

\* index of the first " " of s, 0 when there is none
FirstSpace(s) ==
    IF \E i \in 1..Len(s) : s[i] = " "
    THEN CHOOSE i \in 1..Len(s) : s[i] = " " /\ \A j \in 1..(i - 1) : s[j] # " "
    ELSE 0

\* s.split(" ")[0]
SplitFirst(s) == IF FirstSpace(s) = 0 THEN s ELSE SubSeq(s, 1, FirstSpace(s) - 1)

\* s.substring(start)
Substring(s, start) == IF start >= Len(s) THEN <<>> ELSE SubSeq(s, start + 1, Len(s))

\* a plausible slip: the separator is kept in the name
PayloadKeepsSeparator(n, d, t) ==
    [price |-> Str(SplitFirst(n)), name |-> Substring(n, Len(SplitFirst(n))),
     description |-> d, dateTime |-> t]

\* the object addNewTransaction serialises into the POST body
Payload(n, d, t) ==
    [price |-> Str(SplitFirst(n)), name |-> Substring(n, Len(SplitFirst(n)) + 1),
     description |-> d, dateTime |-> t]

RECURSIVE BalanceLoop(_, _, _)
BalanceLoop(items, i, acc) ==
    IF i > Len(items) THEN acc
    ELSE BalanceLoop(items, i + 1, JSAdd(acc, items[i].price))

\* a plausible slip: the loop misses the last transaction
BalanceSkipsLast(items) ==
    BalanceLoop(SubSeq(items, 1, Len(items) - 1), 1, Num(0))

\* let balance = 0; for (const transaction of transactions) balance += price
Balance(items) == BalanceLoop(items, 1, Num(0))

\* the colour of the balance span
BalanceColor(items) == IF JSLess(Balance(items), 0) THEN "red" ELSE "green"

\* for...of over a value that is not an array throws: nothing is rendered
RenderThrows == transactions.kind # "array"

\* a plausible slip: only the name input is marked required
RequiredNameOnly == name # <<>>

\* the three inputs are required: the browser fires no submit event otherwise
RequiredOk == name # <<>> /\ dateTime # "" /\ description # ""

----------------------------------------------------------------------------
(* Store: the Transaction model over the collection *)

\* the schema holds price as a number: a value that denotes none is refused
Castable(doc) == doc.price.t = "number" \/ IsNumeric(doc.price.s)

CastPrice(v) == IF v.t = "number" THEN v ELSE Num(ToNumber(v.s))

\* the document Transaction.create resolves to
NewDoc(id, doc) ==
    [_id |-> id, name |-> doc.name, description |-> doc.description,
     dateTime |-> doc.dateTime, price |-> CastPrice(doc.price)]

\* Transaction.create: one more document, under a fresh identifier
StoreCreate(coll, id, doc) == Append(coll, NewDoc(id, doc))

\* Transaction.find(): the whole collection
StoreFind(coll) == coll

----------------------------------------------------------------------------
(* API handlers *)

\* a plausible slip: the failure is swallowed and an empty list is sent
GetReplySwallows(rid, ok, coll) ==
    Response("GET", rid, 200, JArray(IF ok THEN StoreFind(coll) ELSE <<>>), ok)

\* app.get("/api/transaction"): the list, or the 500 envelope
GetReply(rid, ok, coll) ==
    IF ok THEN Response("GET", rid, 200, JArray(StoreFind(coll)), ok)
    ELSE Response("GET", rid, 500, JError("Failed to fetch transactions"), ok)

\* a plausible slip: the timestamp is read under another key and is lost
PostDocLosesDateTime(body) ==
    [name |-> body.name, description |-> body.description,
     dateTime |-> "", price |-> body.price]

\* const { name, description, dateTime, price } = req.body
PostDoc(body) ==
    [name |-> body.name, description |-> body.description,
     dateTime |-> body.dateTime, price |-> body.price]

\* app.post("/api/transaction"): the created record, or the 500 envelope
PostReply(rid, ok, id, doc) ==
    IF ok THEN Response("POST", rid, 200, JDoc(NewDoc(id, doc)), ok)
    ELSE Response("POST", rid, 500, JError("Failed to create transaction"), ok)

\* a plausible slip: a record of the same name is replaced, not added
PostCollectionUpsert(coll, ok, id, doc) ==
    IF ~ok THEN coll
    ELSE IF \E i \in 1..Len(coll) : coll[i].name = doc.name
    THEN [i \in 1..Len(coll) |->
             IF coll[i].name = doc.name THEN NewDoc(coll[i]._id, doc) ELSE coll[i]]
    ELSE StoreCreate(coll, id, doc)

\* the collection after the POST handler
PostCollection(coll, ok, id, doc) == IF ok THEN StoreCreate(coll, id, doc) ELSE coll

----------------------------------------------------------------------------
(* Inputs *)

NameInputs == { <<>>, <<"2", " ", "m">>, <<"-", "2">>, <<"m">> }

DescriptionInputs == {"", "d"}

DateTimeInputs == {"", "2025-09-07T10:30"}

Init ==
    /\ name = <<>>
    /\ description = ""
    /\ dateTime = ""
    /\ transactions = JArray(<<>>)
    /\ mounted = FALSE
    /\ net = {}
    /\ db = <<>>
    /\ nextId = 1
    /\ posted = <<>>
    /\ submitted = <<>>
    /\ created = {}
    /\ answered = {}

----------------------------------------------------------------------------
(* Client actions *)

\* useEffect(() => { getTransactions().then(setTransactions) }, [])
Mount ==
    /\ ~mounted
    /\ mounted' = TRUE
    /\ net' = net \cup {Request("GET", 0, NoPayload)}
    /\ UNCHANGED << name, description, dateTime, transactions, db, nextId,
                    posted, submitted, created, answered >>

\* .then(setTransactions): the parsed body becomes the list state, whatever it is
LoadComplete ==
    \E m \in net :
        /\ m.dir = "res" /\ m.method = "GET"
        /\ transactions' = m.json
        /\ net' = net \ {m}
        /\ UNCHANGED << name, description, dateTime, mounted, db, nextId,
                        posted, submitted, created, answered >>

\* onChange of the name input
SetName ==
    \E v \in NameInputs :
        /\ mounted /\ ~RenderThrows
        /\ v # name
        /\ name' = v
        /\ UNCHANGED << description, dateTime, transactions, mounted, net, db,
                        nextId, posted, submitted, created, answered >>

\* onChange of the description input
SetDescription ==
    \E v \in DescriptionInputs :
        /\ mounted /\ ~RenderThrows
        /\ v # description
        /\ description' = v
        /\ UNCHANGED << name, dateTime, transactions, mounted, net, db,
                        nextId, posted, submitted, created, answered >>

\* onChange of the datetime-local input
SetDateTime ==
    \E v \in DateTimeInputs :
        /\ mounted /\ ~RenderThrows
        /\ v # dateTime
        /\ dateTime' = v
        /\ UNCHANGED << name, description, transactions, mounted, net, db,
                        nextId, posted, submitted, created, answered >>

\* a plausible slip: the button is disabled while a POST is in flight
CanSubmitOneAtATime ==
    /\ mounted /\ ~RenderThrows
    /\ RequiredOk
    /\ ~ \E m \in net : m.method = "POST"

\* the form is on screen and the browser lets the submit event through
CanSubmit ==
    /\ mounted /\ ~RenderThrows
    /\ RequiredOk

\* addNewTransaction: the POST is sent; nothing else changes until it answers
Submit ==
    /\ CanSubmit
    /\ Len(posted) < MaxSubmits
    /\ net' = net \cup {Request("POST", Len(posted) + 1,
                                Payload(name, description, dateTime))}
    /\ posted' = Append(posted, Payload(name, description, dateTime))
    /\ submitted' = Append(submitted, name)
    /\ UNCHANGED << name, description, dateTime, transactions, mounted, db,
                    nextId, created, answered >>

\* a plausible slip: the created record is merged into the list
ListAfterSubmitAppends(list, json) ==
    IF list.kind = "array" /\ json.kind = "doc"
    THEN JArray(Append(list.items, json.doc)) ELSE list

\* the list state after the POST's response handler: it is not touched
ListAfterSubmit(list, json) == list

\* .then(response => response.json().then(json => { setName(""); ... }))
SubmitComplete ==
    \E m \in net :
        /\ m.dir = "res" /\ m.method = "POST"
        /\ name' = <<>>
        /\ dateTime' = ""
        /\ description' = ""
        /\ transactions' = ListAfterSubmit(transactions, m.json)
        /\ net' = net \ {m}
        /\ answered' = answered \cup {<< m.rid, m.status >>}
        /\ UNCHANGED << mounted, db, nextId, posted, submitted, created >>

\* a request or a response is lost: fetch rejects and nothing observes it
NetworkFailure ==
    \E m \in net :
        /\ net' = net \ {m}
        /\ UNCHANGED << name, description, dateTime, transactions, mounted, db,
                        nextId, posted, submitted, created, answered >>

----------------------------------------------------------------------------
(* Server actions *)

\* GET /api/transaction: Transaction.find() resolves (ok) or rejects
HandleGet ==
    \E m \in net, ok \in BOOLEAN :
        /\ m.dir = "req" /\ m.method = "GET"
        /\ net' = (net \ {m}) \cup {GetReply(m.rid, ok, db)}
        /\ UNCHANGED << name, description, dateTime, transactions, mounted, db,
                        nextId, posted, submitted, created, answered >>

\* POST /api/transaction: Transaction.create() resolves (ok) or rejects
HandlePost ==
    \E m \in net, up \in BOOLEAN :
        /\ m.dir = "req" /\ m.method = "POST"
        /\ LET doc == PostDoc(m.payload)
               ok  == up /\ Castable(doc)
           IN  /\ db' = PostCollection(db, ok, nextId, doc)
               /\ nextId' = IF ok THEN nextId + 1 ELSE nextId
               /\ net' = (net \ {m}) \cup {PostReply(m.rid, ok, nextId, doc)}
               /\ created' = IF ok THEN created \cup {<< m.rid, nextId >>}
                             ELSE created
        /\ UNCHANGED << name, description, dateTime, transactions, mounted,
                        posted, submitted, answered >>

Next ==
    \/ Mount
    \/ LoadComplete
    \/ SetName
    \/ SetDescription
    \/ SetDateTime
    \/ Submit
    \/ SubmitComplete
    \/ NetworkFailure
    \/ HandleGet
    \/ HandlePost

Spec == Init /\ [][Next]_vars

----------------------------------------------------------------------------
(* The submit alone, over every text the name field can hold *)

Chars == {"0", "2", "-", " ", "m"}

\* onChange of the name input, keystroke by keystroke: one more character,
\* or the last one deleted
TypeName ==
    \E v \in { Append(name, c) : c \in Chars }
             \cup { SubSeq(name, 1, Len(name) - 1) } :
        /\ mounted
        /\ posted = <<>>
        /\ Len(v) <= MaxLen
        /\ v # name
        /\ name' = v
        /\ UNCHANGED << description, dateTime, transactions, mounted, net, db,
                        nextId, posted, submitted, created, answered >>

SubmitOnce == posted = <<>> /\ Submit

FormNext ==
    \/ Mount
    \/ TypeName
    \/ SetDescription
    \/ SetDateTime
    \/ SubmitOnce

FormSpec == Init /\ [][FormNext]_vars

----------------------------------------------------------------------------
(* Properties *)

NoSpace(s) == \A i \in 1..Len(s) : s[i] # " "

\* the leading token of f is its first k characters
LeadingToken(f, k) == NoSpace(SubSeq(f, 1, k)) /\ (k = Len(f) \/ f[k + 1] = " ")

PostRequests == { m \in net : m.dir = "req" /\ m.method = "POST" }

PostResponses == { m \in net : m.dir = "res" /\ m.method = "POST" }

GetResponses == { m \in net : m.dir = "res" /\ m.method = "GET" }

RECURSIVE SumPrices(_)
\* the arithmetic sum of the prices of a list of stored transactions
SumPrices(items) ==
    IF items = <<>> THEN 0 ELSE Head(items).price.n + SumPrices(Tail(items))

RecordOf(rid, id) ==
    [_id |-> id, name |-> posted[rid].name,
     description |-> posted[rid].description,
     dateTime |-> posted[rid].dateTime,
     price |-> Num(ToNumber(posted[rid].price.s))]

\* the record with the posted values as they were posted
VerbatimRecordOf(rid, id) ==
    [_id |-> id, name |-> posted[rid].name,
     description |-> posted[rid].description,
     dateTime |-> posted[rid].dateTime,
     price |-> posted[rid].price]

InList(r, items) == \E i \in 1..Len(items) : items[i] = r

C3_Stored ==
    /\ \A c \in created : InList(RecordOf(c[1], c[2]), db)
    /\ \A m \in PostResponses :
          m.status = 200
          => \E c \in created : c[1] = m.rid /\ m.json = JDoc(RecordOf(c[1], c[2]))

\* a GET answered with 200 lists the record of every create made before it
C3_Listed ==
    \A m \in net' \ net :
        (m.dir = "res" /\ m.method = "GET" /\ m.status = 200)
        => /\ m.json.kind = "array"
           /\ \A c \in created : InList(RecordOf(c[1], c[2]), m.json.items)

C4_RequiredFields ==
    /\ \A i \in 1..Len(posted) :
          /\ posted[i].description # ""
          /\ posted[i].dateTime # ""
          /\ submitted[i] # <<>>
    /\ \A m \in PostRequests : m.payload.description # "" /\ m.payload.dateTime # ""
    /\ ~RequiredOk => ~ENABLED Submit

\* only the description is missing, and no submit is possible
C4_Witness ==
    /\ mounted /\ ~RenderThrows
    /\ name # <<>> /\ dateTime # "" /\ description = ""
    /\ Len(posted) < MaxSubmits
    /\ ~ENABLED Submit

C6_StoreFailureIs500 ==
    /\ \A m \in net :
          (m.dir = "res" /\ ~m.storeOk)
          => /\ m.status = 500
             /\ m.json.kind = "error"
             /\ m.json.error # ""
             /\ m.json.items = <<>>
    /\ \A m \in PostResponses : ~m.storeOk => \A c \in created : c[1] # m.rid
    /\ Len(db) = Cardinality(created)

\* a failed find and a failed create are both being answered
C6_Witness ==
    /\ \E m \in GetResponses : ~m.storeOk
    /\ \E m \in PostResponses : ~m.storeOk
    /\ Len(db) = 1

\* C7 as stated: whatever the GET came to, the list state is a list of
\* transactions.
C7_ListStaysList == transactions.kind = "array"

\* C8: a submit stays possible while a POST is in flight; every submit sends
\* a POST of its own; every create that succeeds leaves a record of its own,
\* so equal payloads leave records that differ in the identifier only.
C8_DoubleSubmit ==
    /\ (mounted /\ ~RenderThrows /\ RequiredOk /\ Len(posted) < MaxSubmits)
         => ENABLED Submit
    /\ \A m \in PostRequests : m.rid \in 1..Len(posted)
    /\ \A m1, m2 \in PostRequests : m1.rid = m2.rid => m1 = m2
    /\ \A c \in created :
          /\ InList(RecordOf(c[1], c[2]), db)
          /\ \A e \in created : (e # c) => (e[1] # c[1] /\ e[2] # c[2])
    /\ Len(db) = Cardinality(created)

\* the same values were submitted twice before any response was handled, and
\* both creates succeeded
C8_Witness ==
    /\ Len(posted) = 2 /\ posted[1] = posted[2]
    /\ answered = {}
    /\ Cardinality(created) = 2
    /\ Len(db) = 2
    /\ db[1]._id # db[2]._id
    /\ [db[1] EXCEPT !._id = 0] = [db[2] EXCEPT !._id = 0]

IdsDistinct == \A i, j \in 1..Len(db) : (db[i]._id = db[j]._id) => (i = j)

\* every step keeps the records there are, a GET handler keeps the collection,
\* and a create that succeeds adds one record
C9_Step ==
    /\ Len(db') \in {Len(db), Len(db) + 1}
    /\ \A i \in 1..Len(db) : db'[i] = db[i]
    /\ created' = created => db' = db
    /\ (\E m \in net : m.dir = "req" /\ m.method = "GET" /\ m \notin net')
         => db' = db
    /\ created' # created => Len(db') = Len(db) + 1

\* C9: identifiers are pairwise distinct, and the collection only grows: a
\* record stays with its identifier and values, a GET changes nothing, a POST
\* that succeeds adds exactly one record.
C9_AppendOnly == []IdsDistinct /\ [][C9_Step]_vars

\* two records are stored after two creates
C9_Witness ==
    /\ Len(db) = 2
    /\ Cardinality(created) = 2
    /\ db[1]._id # db[2]._id

\* C10 as stated: every POST response that cleared the form answered a
\* create that succeeded.
C10_ClearedOnlyOnSuccess ==
    \A a \in answered : a[2] = 200 /\ \E c \in created : c[1] = a[1]

=============================================================================
